---- MODULE Spec2Model ----
(***************************************************************************)
(* TPM command transport of drivers/char/tpm/tpm-interface.c:              *)
(* tpm_validate_command, tpm_request_locality, tpm_relinquish_locality,    *)
(* tpm_cmd_ready, tpm_go_idle, tpm_try_transmit, tpm_transmit and          *)
(* tpm_transmit_cmd, run by caller threads against one chip.               *)
(*                                                                         *)
(* A buffer is a sequence of bytes; byte offset o of the C buffer is       *)
(* element o + 1 of the sequence.                                          *)
(***************************************************************************)
EXTENDS Integers, Sequences, FiniteSets, TLC

(* ------------------------------------------------------------------ *)
(* Program constants                                                    *)
(* ------------------------------------------------------------------ *)
TPM_HEADER_SIZE == 10
TPM_BUFSIZE == 4096
TPM2_DURATION_SHORT == 20
TPM2_DURATION_LONG == 2000
TPM2_RC_RETRY == 2338
TPM2_RC_TESTING == 2314
TPM2_RC_COMMAND_CODE == 323
TPM2_CC_SELF_TEST == 323
TPM2_ST_NO_SESSIONS == 32769
TSS2_RESMGR_TPM_RC_LAYER == 720896
TPM2_CC_ATTR_CHANDLES == 25
EINVAL == 22
EOPNOTSUPP == 95
ENODATA == 61
E2BIG == 7
ECANCELED == 125
ETIME == 62
EFAULT == 14
EPIPE == 32
EIO == 5
ENOMEM == 12
ENODEV == 19

(* sizeof(save): header plus three u32 handles *)
SaveCapacity == TPM_HEADER_SIZE + 3 * 4

(* ------------------------------------------------------------------ *)
(* Bounds of the model                                                  *)
(* ------------------------------------------------------------------ *)
(* status reads of one attempt before the deadline is forced to pass *)
MaxPolls == 2

(* ops references outstanding on a chip before no further wrapper is called *)
MaxRefs == 2

(* ------------------------------------------------------------------ *)
(* Bytes and byte order                                                 *)
(* ------------------------------------------------------------------ *)
Min(a, b) == IF a < b THEN a ELSE b

RECURSIVE Pow2(_)
Pow2(n) == IF n = 0 THEN 1 ELSE 2 * Pow2(n - 1)

(* bitwise or of two naturals *)
RECURSIVE BitOr(_, _)
BitOr(a, b) ==
    IF a = 0 THEN b
    ELSE IF b = 0 THEN a
    ELSE (IF (a % 2 = 1) \/ (b % 2 = 1) THEN 1 ELSE 0)
         + 2 * BitOr(a \div 2, b \div 2)

(* bitwise and of two naturals *)
RECURSIVE BitAnd(_, _)
BitAnd(a, b) ==
    IF a = 0 \/ b = 0 THEN 0
    ELSE (IF (a % 2 = 1) /\ (b % 2 = 1) THEN 1 ELSE 0)
         + 2 * BitAnd(a \div 2, b \div 2)

(* byte i of b; the callers below read inside the buffer, except the read of
   the command code by tpm_transmit, which draws its value when it is outside *)
At(b, i) == IF i \in DOMAIN b THEN b[i] ELSE 0

cpu_to_be16(v) == << (v \div 256) % 256, v % 256 >>

cpu_to_be32(v) ==
    << (v \div 16777216) % 256, (v \div 65536) % 256, (v \div 256) % 256, v % 256 >>

(* the u32 stored big-endian at byte offset off of b *)
be32_to_cpu(b, off) ==
    At(b, off + 1) * 16777216 + At(b, off + 2) * 65536
        + At(b, off + 3) * 256 + At(b, off + 4)

be16_to_cpu(b, off) == At(b, off + 1) * 256 + At(b, off + 2)

(* memcpy(b + off, bytes, Len(bytes)) *)
Put(b, off, bytes) ==
    [i \in 1..Len(b) |->
        IF i > off /\ i <= off + Len(bytes) THEN bytes[i - off] ELSE b[i]]

(* the first n bytes of b *)
Prefix(b, n) == [i \in 1..n |-> b[i]]

(* struct tpm_input_header / tpm_output_header: tag, length, ordinal or
   return code *)
Header(tag, length, code) ==
    cpu_to_be16(tag) \o cpu_to_be32(length) \o cpu_to_be32(code)

(* ------------------------------------------------------------------ *)
(* The chip                                                             *)
(* ------------------------------------------------------------------ *)
(* hooks of struct tpm_class_ops that a chip may leave NULL *)
OptionalOps ==
    {"clk_enable", "request_locality", "relinquish_locality", "cmd_ready", "go_idle"}

(* chip->cc_attrs_tbl of a chip that enumerated its commands: the command
   code in bits 15..0, the handle count in bits 27..25.  SelfTest (no
   handle), GetRandom (no handle), PCR_Extend (one handle). *)
CcAttrsTbl ==
    << TPM2_CC_SELF_TEST,
       379,
       386 + 1 * Pow2(TPM2_CC_ATTR_CHANDLES) >>

(* the chips of the model: version and interrupt flags, the command table,
   the optional hooks present, the ops references taken by tpm_find_get_ops
   and not yet given back by tpm_put_ops *)
FullChip ==
    [flags |-> {"TPM2"}, nr_commands |-> Len(CcAttrsTbl),
     cc_attrs_tbl |-> CcAttrsTbl, ops |-> OptionalOps, refs |-> 0]

Chips ==
    { FullChip,
      [flags |-> {"TPM2", "IRQ"}, nr_commands |-> Len(CcAttrsTbl),
       cc_attrs_tbl |-> CcAttrsTbl,
       ops |-> {"request_locality", "relinquish_locality"}, refs |-> 0],
      [flags |-> {}, nr_commands |-> 0, cc_attrs_tbl |-> << >>, ops |-> {},
       refs |-> 0] }

(* tpm2_find_cc: the index of cc in the table (0-based), or -1 *)
tpm2_find_cc(c, cc) ==
    IF \E i \in 1..c.nr_commands : BitAnd(c.cc_attrs_tbl[i], 65535) = cc
    THEN (CHOOSE i \in 1..c.nr_commands :
              /\ BitAnd(c.cc_attrs_tbl[i], 65535) = cc
              /\ \A j \in 1..(i - 1) : BitAnd(c.cc_attrs_tbl[j], 65535) # cc) - 1
    ELSE -1

(* ------------------------------------------------------------------ *)
(* tpm_validate_command                                                 *)
(* ------------------------------------------------------------------ *)
(* the handle bytes the table entry i asks for, as the code computes them *)
NrHandles(c, i) ==
    4 * ((c.cc_attrs_tbl[i + 1] \div Pow2(TPM2_CC_ATTR_CHANDLES)) % 8)

(* the validator without its command filter *)
tpm_validate_command_nofilter(c, space, cmd, len) ==
    IF len < TPM_HEADER_SIZE THEN -EINVAL ELSE 0

(* the validator without its minimum length *)
tpm_validate_command_nolen(c, space, cmd, len) ==
    IF ~space THEN 0
    ELSE IF "TPM2" \in c.flags /\ c.nr_commands # 0
         THEN LET i == tpm2_find_cc(c, be32_to_cpu(cmd, 6))
              IN  IF i < 0 THEN -EOPNOTSUPP
                  ELSE IF len < TPM_HEADER_SIZE + 4 * NrHandles(c, i)
                       THEN -EINVAL
                       ELSE 0
         ELSE 0

tpm_validate_command(c, space, cmd, len) ==
    IF len < TPM_HEADER_SIZE THEN -EINVAL
    ELSE IF ~space THEN 0
    ELSE IF "TPM2" \in c.flags /\ c.nr_commands # 0
         THEN LET cc == be32_to_cpu(cmd, 6)
                  i == tpm2_find_cc(c, cc)
              IN  IF i < 0 THEN -EOPNOTSUPP
                  ELSE IF len < TPM_HEADER_SIZE + 4 * NrHandles(c, i)
                       THEN -EINVAL
                       ELSE 0
         ELSE 0

(* ------------------------------------------------------------------ *)
(* Callers and their inputs                                             *)
(* ------------------------------------------------------------------ *)
Threads == {1, 2}

TransmitFlags == {"TPM_TRANSMIT_UNLOCKED", "TPM_TRANSMIT_NESTED"}

(* the body byte at offset o of a command as the caller wrote it *)
BodyByte(o) == 160 + o

(* a command buffer of bufsiz bytes: a header declaring count bytes and the
   command code cc, cut or filled to bufsiz *)
Command(bufsiz, count, cc) ==
    LET h == Header(TPM2_ST_NO_SESSIONS, count, cc)
    IN  [i \in 1..bufsiz |-> IF i <= Len(h) THEN h[i] ELSE BodyByte(i - 1)]

(* the command buffers of the model, by size, declared length and command
   code: too short for a header; an empty and an oversized length field;
   header-only commands the table has (SelfTest) and lacks (409); PCR_Extend
   (386, one handle) with its handle and with a body *)
Commands ==
    { Command(6, 6, TPM2_CC_SELF_TEST),
      Command(TPM_HEADER_SIZE, 0, TPM2_CC_SELF_TEST),
      Command(TPM_HEADER_SIZE, TPM_HEADER_SIZE + 4, TPM2_CC_SELF_TEST),
      Command(TPM_HEADER_SIZE, TPM_HEADER_SIZE, TPM2_CC_SELF_TEST),
      Command(TPM_HEADER_SIZE, TPM_HEADER_SIZE, 409),
      Command(TPM_HEADER_SIZE + 4, TPM_HEADER_SIZE + 4, 386),
      Command(TPM_HEADER_SIZE + 16, TPM_HEADER_SIZE + 16, 386) }

(* the calls of the concurrent model: a self test sent without a space, and
   an unlocked call of a command the table lacks *)
ConcInputs ==
    { [space |-> FALSE, flags |-> {},
       buf |-> Command(TPM_HEADER_SIZE, TPM_HEADER_SIZE, TPM2_CC_SELF_TEST)],
      [space |-> TRUE, flags |-> {"TPM_TRANSMIT_UNLOCKED"},
       buf |-> Command(TPM_HEADER_SIZE, TPM_HEADER_SIZE, 409)] }

(* the calls of the sequential model *)
Inputs ==
    { [space |-> sp, flags |-> fl, buf |-> b] :
        sp \in BOOLEAN, fl \in SUBSET TransmitFlags, b \in Commands }

(* ------------------------------------------------------------------ *)
(* State                                                                *)
(* ------------------------------------------------------------------ *)
VARIABLES
    chip,        \* the chip's flags, command table and hooks (fixed)
    locality,    \* chip->locality, -1 when none is held
    tpm_mutex,   \* the thread holding chip->tpm_mutex, 0 when free
    clk,         \* the clock state last set through clk_enable
    held,        \* held[t]: t's caller took tpm_mutex before calling
    fr,          \* fr[t]: the locals of t's tpm_transmit_cmd call
    obs          \* Obs(t): what t's call has done so far (history), for
                 \* the threads whose calls are recorded

vars == << chip, locality, tpm_mutex, clk, held, fr, obs >>

OpNames ==
    {"mutex_lock", "mutex_unlock", "clk_enable", "request_locality",
     "relinquish_locality", "cmd_ready", "go_idle", "send", "status",
     "req_canceled", "cancel", "recv"}

NoOps == [o \in OpNames |-> 0]

(* the attempt of o invokes the operation op *)
Did(o, op) == [o EXCEPT !.at.cnt[op] = @ + 1]

IdleFrame ==
    [pc |-> "idle", space |-> FALSE, flags |-> {}, buf |-> << >>, bufsiz |-> 0,
     save |-> << >>, save_size |-> 0, delay_msec |-> 0, cc |-> 0, ret |-> 0,
     rc |-> 0, len |-> 0, count |-> 0, ordinal |-> 0, need_locality |-> FALSE,
     tbufsiz |-> 0, polls |-> 0, min_rsp_body_length |-> 0, result |-> 0,
     wrapper |-> "none", found |-> "not_called"]

(* what an attempt (one tpm_try_transmit call) has done: the operations it
   invoked, the locality granted to it and the one it gave back,
   chip->locality at its entry, whether tpm_cmd_ready returned 0, and what
   the go_idle and relinquish_locality hooks returned, and what the last
   read of the status register showed *)
NoAttempt ==
    [cnt |-> NoOps, granted |-> -1, relArg |-> -1, locEntry |-> -1, ready |-> FALSE,
     idleRet |-> 0, relRet |-> 0, lastStatus |-> "none"]

(* what a call has done: attempts started, sends, the sleeps between
   attempts, whether every attempt so far (every attempt before the last)
   returned a response carrying TPM2_RC_RETRY, the command as passed in;
   whether the last attempt called recv, what recv returned and the length
   its header declared (-1 without a header); the attempt under way or
   just returned *)
IdleObs ==
    [attempts |-> 0, nsend |-> 0, sleeps |-> << >>,
     allRetry |-> TRUE, prevAllRetry |-> TRUE, orig |-> << >>,
     recvd |-> FALSE, recvRet |-> 0, recvDecl |-> -1, at |-> NoAttempt]

(* after tpm_chip_alloc: no locality held, the mutex free, no call under way *)
InitOn(chips, recorded) ==
    /\ chip \in chips
    /\ locality = -1
    /\ tpm_mutex = 0
    /\ clk = FALSE
    /\ held = [t \in Threads |-> FALSE]
    /\ fr = [t \in Threads |-> IdleFrame]
    /\ obs = [t \in recorded |-> IdleObs]

Init == InitOn(Chips, {1})

(* ------------------------------------------------------------------ *)
(* tpm_transmit_cmd and tpm_transmit: entry                             *)
(* ------------------------------------------------------------------ *)
(* save_size of tpm_transmit *)
SaveSize(space, bufsiz) ==
    Min(IF space THEN SaveCapacity ELSE TPM_HEADER_SIZE, bufsiz)

(* tpm_transmit_cmd calls tpm_transmit, which snapshots the head of the
   buffer, reads the command code and enters its loop.  A caller passes
   TPM_TRANSMIT_UNLOCKED or TPM_TRANSMIT_NESTED only while it holds the
   mutex itself. *)
TransmitCmdCall(t, inputs) ==
    /\ fr[t].pc = "idle"
    /\ \E in \in inputs :
         /\ (in.flags # {}) => held[t]
         /\ (in.flags = {}) => ~held[t]
         /\ \E cc \in IF Len(in.buf) >= TPM_HEADER_SIZE
                      THEN {be32_to_cpu(in.buf, 6)}
                      ELSE {0, TPM2_CC_SELF_TEST} :
              LET ss == SaveSize(in.space, Len(in.buf))
              IN  /\ fr' = [fr EXCEPT ![t] =
                       [IdleFrame EXCEPT
                          !.pc = "try", !.space = in.space, !.flags = in.flags,
                          !.buf = in.buf, !.bufsiz = Len(in.buf),
                          !.save = Prefix(in.buf, ss), !.save_size = ss,
                          !.delay_msec = TPM2_DURATION_SHORT, !.cc = cc]]
                  /\ obs' = IF t \in DOMAIN obs
                            THEN [obs EXCEPT ![t] = [IdleObs EXCEPT !.orig = in.buf]]
                            ELSE obs
    /\ UNCHANGED << chip, locality, tpm_mutex, clk, held >>

(* ------------------------------------------------------------------ *)
(* tpm_try_transmit                                                     *)
(* ------------------------------------------------------------------ *)
Set(t, f) == fr' = [fr EXCEPT ![t] = f]

(* the history of t's call, when it is recorded *)
Obs(t) == IF t \in DOMAIN obs THEN obs[t] ELSE IdleObs

Note(t, o) == obs' = IF t \in DOMAIN obs THEN [obs EXCEPT ![t] = o] ELSE obs

(* tpm_try_transmit returns v to the loop of tpm_transmit; its locals end *)
Returned(f, v) ==
    [f EXCEPT !.pc = "check", !.ret = v, !.rc = 0, !.len = 0, !.count = 0,
              !.ordinal = 0, !.need_locality = FALSE, !.tbufsiz = 0, !.polls = 0]

(* the response tpm_try_transmit writes for a command the chip lacks *)
UnsupportedResponse ==
    Header(TPM2_ST_NO_SESSIONS, TPM_HEADER_SIZE,
           BitOr(TPM2_RC_COMMAND_CODE, TSS2_RESMGR_TPM_RC_LAYER))

(* an attempt that never takes the mutex *)
TakesMutex_never(flags) == FALSE

(* line 204: whether tpm_try_transmit takes chip->tpm_mutex itself *)
TakesMutex(flags) ==
    ("TPM_TRANSMIT_UNLOCKED" \notin flags) /\ ("TPM_TRANSMIT_NESTED" \notin flags)

(* lines 176-202: validation, the synthesized response, the length field.
   go: the attempt goes on to the chip; otherwise ret is the value returned. *)
TryPrologue(c, space, buf, bufsiz) ==
    LET v == tpm_validate_command(c, space, buf, bufsiz)
        clamped == IF bufsiz > TPM_BUFSIZE THEN TPM_BUFSIZE ELSE bufsiz
        count == be32_to_cpu(buf, 2)
    IN  IF v = -EINVAL
        THEN [go |-> FALSE, ret |-> v, buf |-> buf, tbufsiz |-> bufsiz]
        ELSE IF v = -EOPNOTSUPP
        THEN [go |-> FALSE, ret |-> TPM_HEADER_SIZE,
              buf |-> Put(buf, 0, UnsupportedResponse), tbufsiz |-> bufsiz]
        ELSE IF count = 0
        THEN [go |-> FALSE, ret |-> -ENODATA, buf |-> buf, tbufsiz |-> clamped]
        ELSE IF count > clamped
        THEN [go |-> FALSE, ret |-> -E2BIG, buf |-> buf, tbufsiz |-> clamped]
        ELSE [go |-> TRUE, ret |-> 0, buf |-> buf, tbufsiz |-> clamped]

TryEnter(t) ==
    /\ fr[t].pc = "try"
    /\ LET f == fr[t]
           p == TryPrologue(chip, f.space, f.buf, f.bufsiz)
           o == [Obs(t) EXCEPT !.attempts = @ + 1, !.recvd = FALSE, !.recvRet = 0,
                               !.recvDecl = -1,
                               !.at = [NoAttempt EXCEPT !.locEntry = locality]]
       IN  /\ Note(t, o)
           /\ IF p.go
              THEN Set(t, [f EXCEPT !.pc = "lock", !.tbufsiz = p.tbufsiz,
                                    !.count = be32_to_cpu(f.buf, 2),
                                    !.ordinal = be32_to_cpu(f.buf, 6)])
              ELSE Set(t, Returned([f EXCEPT !.buf = p.buf], p.ret))
    /\ UNCHANGED << chip, locality, tpm_mutex, clk, held >>

(* lines 204-211: mutex_lock, clk_enable(true), need_locality *)
TryLock(t) ==
    /\ fr[t].pc = "lock"
    /\ LET f == fr[t]
           lk == TakesMutex(f.flags)
           ck == "clk_enable" \in chip.ops
           o1 == IF lk THEN Did(Obs(t), "mutex_lock") ELSE Obs(t)
           o2 == IF ck THEN Did(o1, "clk_enable") ELSE o1
       IN  /\ lk => tpm_mutex = 0
           /\ tpm_mutex' = IF lk THEN t ELSE tpm_mutex
           /\ clk' = IF ck THEN TRUE ELSE clk
           /\ Set(t, [f EXCEPT !.pc = "locality", !.need_locality = (locality = -1)])
           /\ Note(t, o2)
    /\ UNCHANGED << chip, locality, held >>

(* the values the request_locality hook may return: an error or the
   locality granted *)
RequestResults == {-EIO, 0}

(* whether tpm_request_locality, tpm_relinquish_locality, tpm_cmd_ready and
   tpm_go_idle reach the hook *)
CallsHook(c, flags, hook) ==
    ("TPM_TRANSMIT_NESTED" \notin flags) /\ (hook \in c.ops)

(* an attempt that goes on after a failed request *)
AfterRequest_proceed(rc) == "ready"

(* lines 215-218: where the attempt goes after tpm_request_locality
   returned rc *)
AfterRequest(rc) == IF rc < 0 THEN "out_locality" ELSE "ready"

(* lines 213-219 with tpm_request_locality *)
RequestLocality(t) ==
    /\ fr[t].pc = "locality"
    /\ LET f == fr[t]
           o == Obs(t)
       IN  IF ~f.need_locality
           THEN Set(t, [f EXCEPT !.pc = "ready"])
                /\ UNCHANGED << obs, locality >>
           ELSE IF ~CallsHook(chip, f.flags, "request_locality")
           THEN Set(t, [f EXCEPT !.pc = "ready", !.rc = 0])
                /\ UNCHANGED << obs, locality >>
           ELSE \E r \in RequestResults :
                  IF r < 0
                  THEN /\ Set(t, [f EXCEPT !.pc = AfterRequest(r), !.rc = r,
                                           !.need_locality = FALSE])
                       /\ Note(t, Did(o, "request_locality"))
                       /\ UNCHANGED locality
                  ELSE /\ Set(t, [f EXCEPT !.pc = AfterRequest(r), !.rc = 0])
                       /\ Note(t, [Did(o, "request_locality") EXCEPT !.at.granted = r])
                       /\ locality' = r
    /\ UNCHANGED << chip, tpm_mutex, clk, held >>

(* a failed tpm_cmd_ready that leaves through out *)
AfterCmdReady_out(rc) == IF rc # 0 THEN "out" ELSE "prepare"

(* lines 222-223: where the attempt goes after tpm_cmd_ready returned rc *)
AfterCmdReady(rc) == IF rc # 0 THEN "out_locality" ELSE "prepare"

(* lines 221-223 with tpm_cmd_ready *)
CmdReady(t) ==
    /\ fr[t].pc = "ready"
    /\ LET f == fr[t]
       IN  IF ~CallsHook(chip, f.flags, "cmd_ready")
           THEN /\ Set(t, [f EXCEPT !.pc = AfterCmdReady(0), !.rc = 0])
                /\ Note(t, [Obs(t) EXCEPT !.at.ready = TRUE])
           ELSE \E r \in {0, -EIO} :
                  /\ Set(t, [f EXCEPT !.pc = AfterCmdReady(r), !.rc = r])
                  /\ Note(t, [Did(Obs(t), "cmd_ready") EXCEPT !.at.ready = (r = 0)])
    /\ UNCHANGED << chip, locality, tpm_mutex, clk, held >>

(* the handle a space substitutes in the command, and the one it puts back
   in the response *)
PhysHandle == << 128, 0, 0, 1 >>

VirtHandle == << 128, 255, 255, 254 >>

(* what tpm2_prepare_space / tpm2_commit_space may leave in the buffer: they
   do nothing without a space, and with one they may rewrite the first handle *)
SpaceRewrites(space, buf, n, handle) ==
    IF space /\ n >= TPM_HEADER_SIZE + 4 /\ Len(buf) >= TPM_HEADER_SIZE + 4
    THEN {buf, Put(buf, TPM_HEADER_SIZE, handle)}
    ELSE {buf}

SpaceResults(space) == IF space THEN {0, -ENOMEM} ELSE {0}

(* lines 225-227 *)
PrepareSpace(t) ==
    /\ fr[t].pc = "prepare"
    /\ LET f == fr[t]
       IN  \E r \in SpaceResults(f.space) :
           \E b \in SpaceRewrites(f.space /\ r = 0, f.buf, f.count, PhysHandle) :
              Set(t, [f EXCEPT !.pc = IF r # 0 THEN "out" ELSE "send",
                               !.rc = r, !.buf = b])
    /\ UNCHANGED << chip, locality, tpm_mutex, clk, held, obs >>

(* lines 229-238 *)
Send(t) ==
    /\ fr[t].pc = "send"
    /\ LET f == fr[t]
       IN  \E r \in {0, -EPIPE} :
              /\ Set(t, [f EXCEPT !.rc = r,
                           !.pc = IF r < 0 THEN "out"
                                  ELSE IF "IRQ" \in chip.flags THEN "recv"
                                  ELSE "poll"])
              /\ Note(t, [Did(Obs(t), "send") EXCEPT !.nsend = @ + 1])
    /\ UNCHANGED << chip, locality, tpm_mutex, clk, held >>

(* what one read of the status register shows: the request complete, the
   request canceled, or neither *)
StatusReads == {"complete", "canceled", "pending"}

(* a polling loop that times out without calling cancel *)
Poll_nocancel(t) ==
    /\ fr[t].pc = "poll"
    /\ LET f == fr[t]
           o1 == Did(Obs(t), "status")
           o2 == Did(o1, "req_canceled")
       IN  \E st \in StatusReads :
             CASE st = "complete" ->
                    /\ Set(t, [f EXCEPT !.pc = "recv"])
                    /\ Note(t, [o1 EXCEPT !.at.lastStatus = st])
               [] st = "canceled" ->
                    /\ Set(t, [f EXCEPT !.pc = "out", !.rc = -ECANCELED])
                    /\ Note(t, [o2 EXCEPT !.at.lastStatus = st])
               [] OTHER ->
                    \E expired \in BOOLEAN :
                       /\ (f.polls + 1 >= MaxPolls) => expired
                       /\ IF expired
                          THEN /\ Set(t, [f EXCEPT !.pc = "out", !.rc = -ETIME])
                               /\ Note(t, [o2 EXCEPT !.at.lastStatus = st])
                          ELSE /\ Set(t, [f EXCEPT !.polls = @ + 1])
                               /\ Note(t, [o2 EXCEPT !.at.lastStatus = st])
    /\ UNCHANGED << chip, locality, tpm_mutex, clk, held >>

(* lines 240-260: one turn of the polling loop.  After tpm_msleep the
   deadline has passed or not; it has after MaxPolls sleeps (polls counts
   the sleeps of the attempt). *)
Poll(t) ==
    /\ fr[t].pc = "poll"
    /\ LET f == fr[t]
           o1 == Did(Obs(t), "status")
           o2 == Did(o1, "req_canceled")
       IN  \E st \in StatusReads :
             CASE st = "complete" ->
                    /\ Set(t, [f EXCEPT !.pc = "recv"])
                    /\ Note(t, [o1 EXCEPT !.at.lastStatus = st])
               [] st = "canceled" ->
                    /\ Set(t, [f EXCEPT !.pc = "out", !.rc = -ECANCELED])
                    /\ Note(t, [o2 EXCEPT !.at.lastStatus = st])
               [] OTHER ->
                    \E expired \in BOOLEAN :
                       /\ (f.polls + 1 >= MaxPolls) => expired
                       /\ IF expired
                          THEN /\ Set(t, [f EXCEPT !.pc = "out", !.rc = -ETIME])
                               /\ Note(t, [Did(o2, "cancel") EXCEPT !.at.lastStatus = st])
                          ELSE /\ Set(t, [f EXCEPT !.polls = @ + 1])
                               /\ Note(t, [o2 EXCEPT !.at.lastStatus = st])
    /\ UNCHANGED << chip, locality, tpm_mutex, clk, held >>

(* return codes a chip puts in a response *)
ResponseCodes == {0, TPM2_RC_RETRY, TPM2_RC_TESTING, 257}

(* a response of n bytes whose header declares decl bytes *)
Response(n, decl, code) ==
    LET h == Header(TPM2_ST_NO_SESSIONS, decl, code)
    IN  [i \in 1..n |-> IF i <= Len(h) THEN h[i] ELSE 238]

(* what the recv hook may do with a buffer of bufsiz bytes: the value it
   returns and the bytes it wrote at the start of the buffer *)
RecvOutcomes(bufsiz) ==
    { [ret |-> -EIO, data |-> << >>],
      [ret |-> 6, data |-> Response(6, TPM_HEADER_SIZE, 0)],
      [ret |-> TPM_HEADER_SIZE, data |-> Response(TPM_HEADER_SIZE, TPM_HEADER_SIZE + 4, 0)] }
    \cup { [ret |-> TPM_HEADER_SIZE, data |-> Response(TPM_HEADER_SIZE, TPM_HEADER_SIZE, c)] :
             c \in ResponseCodes }
    \cup { [ret |-> n, data |-> Response(n, n, TPM2_RC_RETRY)] :
             n \in {x \in {bufsiz} : x > TPM_HEADER_SIZE} }

(* framing checks that ignore the length the header declares *)
FramingError_nodecl(len, buf) ==
    IF len < 0 THEN len
    ELSE IF len < TPM_HEADER_SIZE THEN -EFAULT
    ELSE 0

(* the framing checks of lines 264-277 on a recv of len bytes: the error, or 0 *)
FramingError(len, buf) ==
    IF len < 0 THEN len
    ELSE IF len < TPM_HEADER_SIZE THEN -EFAULT
    ELSE IF len # be32_to_cpu(buf, 2) THEN -EFAULT
    ELSE 0

(* lines 262-277 *)
Recv(t) ==
    /\ fr[t].pc = "recv"
    /\ LET f == fr[t]
       IN  \E r \in RecvOutcomes(f.tbufsiz) :
              LET b == Put(f.buf, 0, r.data)
                  e == FramingError(r.ret, b)
              IN  /\ Set(t, [f EXCEPT !.buf = b, !.len = r.ret,
                                      !.rc = IF e # 0 THEN e ELSE f.rc,
                                      !.pc = IF e # 0 THEN "out" ELSE "commit"])
                  /\ Note(t, [Did(Obs(t), "recv") EXCEPT
                                !.recvd = TRUE, !.recvRet = r.ret,
                                !.recvDecl = IF Len(r.data) >= TPM_HEADER_SIZE
                                             THEN be32_to_cpu(r.data, 2) ELSE -1])
    /\ UNCHANGED << chip, locality, tpm_mutex, clk, held >>

(* lines 279-281 *)
CommitSpace(t) ==
    /\ fr[t].pc = "commit"
    /\ LET f == fr[t]
       IN  \E r \in SpaceResults(f.space) :
           \E b \in SpaceRewrites(f.space /\ r = 0, f.buf, f.len, VirtHandle) :
              Set(t, [f EXCEPT !.pc = "out", !.rc = r, !.buf = b])
    /\ UNCHANGED << chip, locality, tpm_mutex, clk, held, obs >>

(* the values the go_idle and relinquish_locality hooks may return *)
TeardownResults == {0, -EIO}

(* a go_idle whose error replaces rc *)
RcAfterGoIdle_override(rc, r) == IF r # 0 THEN r ELSE rc

(* line 285: rc after tpm_go_idle returned r; the result is dropped *)
RcAfterGoIdle(rc, r) == rc

(* out: line 285 with tpm_go_idle *)
GoIdle(t) ==
    /\ fr[t].pc = "out"
    /\ LET f == fr[t]
       IN  IF CallsHook(chip, f.flags, "go_idle")
           THEN \E r \in TeardownResults :
                   /\ Set(t, [f EXCEPT !.pc = "out_locality",
                                       !.rc = RcAfterGoIdle(f.rc, r)])
                   /\ Note(t, [Did(Obs(t), "go_idle") EXCEPT !.at.idleRet = r])
           ELSE /\ Set(t, [f EXCEPT !.pc = "out_locality",
                                    !.rc = RcAfterGoIdle(f.rc, 0)])
                /\ UNCHANGED obs
    /\ UNCHANGED << chip, locality, tpm_mutex, clk, held >>

(* line 296 *)
TryResult(rc, len) == IF rc # 0 THEN rc ELSE len

(* a relinquish that ignores need_locality *)
Relinquishes_always(need_locality, c, flags) ==
    CallsHook(c, flags, "relinquish_locality")

(* a release that looks at TPM_TRANSMIT_UNLOCKED only *)
ReleasesMutex_unlockedOnly(flags) == "TPM_TRANSMIT_UNLOCKED" \notin flags

(* an attempt that keeps the mutex when it returns *)
ReleasesMutex_never(flags) == FALSE

(* lines 288-289 and 129-135: whether the relinquish_locality hook is called *)
Relinquishes(need_locality, c, flags) ==
    need_locality /\ CallsHook(c, flags, "relinquish_locality")

(* line 294: whether tpm_try_transmit releases chip->tpm_mutex *)
ReleasesMutex(flags) ==
    ("TPM_TRANSMIT_UNLOCKED" \notin flags) /\ ("TPM_TRANSMIT_NESTED" \notin flags)

(* out_locality: lines 287-296 with tpm_relinquish_locality, which resets
   chip->locality whatever the hook returns *)
OutLocality(t) ==
    /\ fr[t].pc = "out_locality"
    /\ LET f == fr[t]
           rel == Relinquishes(f.need_locality, chip, f.flags)
           lk == ReleasesMutex(f.flags)
           ck == "clk_enable" \in chip.ops
       IN  \E r \in IF rel THEN TeardownResults ELSE {0} :
           LET o1 == IF rel THEN [Did(Obs(t), "relinquish_locality") EXCEPT
                                     !.at.relArg = locality, !.at.relRet = r]
                     ELSE Obs(t)
               o2 == IF ck THEN Did(o1, "clk_enable") ELSE o1
               o3 == IF lk THEN Did(o2, "mutex_unlock") ELSE o2
           IN
           /\ locality' = IF rel THEN -1 ELSE locality
           /\ clk' = IF ck THEN FALSE ELSE clk
           /\ tpm_mutex' = IF lk THEN 0 ELSE tpm_mutex
           /\ Set(t, Returned(f, TryResult(f.rc, f.len)))
           /\ Note(t, o3)
    /\ UNCHANGED << chip, held >>

(* ------------------------------------------------------------------ *)
(* tpm_transmit: the retry loop                                         *)
(* ------------------------------------------------------------------ *)
(* a loop that looks at the return code whatever the attempt returned *)
LeavesLoop_anyret(ret, rc, cc, delay) ==
    IF rc # TPM2_RC_RETRY /\ rc # TPM2_RC_TESTING THEN TRUE
    ELSE IF rc = TPM2_RC_TESTING /\ cc = TPM2_CC_SELF_TEST THEN TRUE
    ELSE delay > TPM2_DURATION_LONG

(* a loop that gives up once the delay has passed TPM2_DURATION_SHORT *)
LeavesLoop_early(ret, rc, cc, delay) ==
    IF ret < 0 THEN TRUE
    ELSE IF rc # TPM2_RC_RETRY /\ rc # TPM2_RC_TESTING THEN TRUE
    ELSE IF rc = TPM2_RC_TESTING /\ cc = TPM2_CC_SELF_TEST THEN TRUE
    ELSE delay > TPM2_DURATION_SHORT

(* a loop without the self-test exit *)
LeavesLoop_noselftest(ret, rc, cc, delay) ==
    IF ret < 0 THEN TRUE
    ELSE IF rc # TPM2_RC_RETRY /\ rc # TPM2_RC_TESTING THEN TRUE
    ELSE delay > TPM2_DURATION_LONG

(* lines 342-361: whether the loop is left after an attempt that returned
   ret and left the return code rc, for the command code cc and the current
   delay *)
LeavesLoop(ret, rc, cc, delay) ==
    IF ret < 0 THEN TRUE
    ELSE IF rc # TPM2_RC_RETRY /\ rc # TPM2_RC_TESTING THEN TRUE
    ELSE IF rc = TPM2_RC_TESTING /\ cc = TPM2_CC_SELF_TEST THEN TRUE
    ELSE delay > TPM2_DURATION_LONG

(* lines 342-361: the loop is left and tpm_transmit returns ret (its locals
   end), or tpm_msleep starts *)
TransmitCheck(t) ==
    /\ fr[t].pc = "check"
    /\ LET f == fr[t]
           rc == be32_to_cpu(f.buf, 6)
           retried == f.ret >= 0 /\ rc = TPM2_RC_RETRY
           o == [Obs(t) EXCEPT !.prevAllRetry = Obs(t).allRetry,
                               !.allRetry = Obs(t).allRetry /\ retried,
                               !.at = NoAttempt]
       IN  IF LeavesLoop(f.ret, rc, f.cc, f.delay_msec)
           THEN /\ Set(t, [f EXCEPT !.pc = "cmd_ret", !.save = << >>, !.save_size = 0,
                                    !.delay_msec = 0, !.cc = 0])
                /\ Note(t, o)
           ELSE /\ Set(t, [f EXCEPT !.pc = "backoff"])
                /\ Note(t, [o EXCEPT !.sleeps = Append(@, f.delay_msec)])
    /\ UNCHANGED << chip, locality, tpm_mutex, clk, held >>

(* a delay that grows by a constant *)
NextDelay_additive(d) == d + TPM2_DURATION_SHORT

(* a restore of the header alone *)
Restore_header(buf, save, save_size) ==
    Put(buf, 0, Prefix(save, Min(save_size, TPM_HEADER_SIZE)))

(* line 363; the delay never passes 2 * TPM2_DURATION_LONG, far from the
   width of an unsigned int *)
NextDelay(d) == 2 * d

(* line 364: memcpy(buf, save, save_size) *)
Restore(buf, save, save_size) == Put(buf, 0, Prefix(save, save_size))

(* lines 362-364: the sleep ends, the delay doubles, the head of the buffer
   is restored, and the loop calls tpm_try_transmit again *)
Backoff(t) ==
    /\ fr[t].pc = "backoff"
    /\ LET f == fr[t]
       IN  Set(t, [f EXCEPT !.pc = "try", !.delay_msec = NextDelay(f.delay_msec),
                            !.buf = Restore(f.buf, f.save, f.save_size)])
    /\ UNCHANGED << chip, locality, tpm_mutex, clk, held, obs >>

(* ------------------------------------------------------------------ *)
(* tpm_transmit_cmd: the result                                         *)
(* ------------------------------------------------------------------ *)
(* int err = be32_to_cpu(header->return_code): the u32 at offset off of b
   converted to int, negative when its top bit is set *)
be32_to_int(b, off) ==
    (IF At(b, off + 1) >= 128 THEN At(b, off + 1) - 256 ELSE At(b, off + 1)) * 16777216
        + At(b, off + 2) * 65536 + At(b, off + 3) * 256 + At(b, off + 4)

(* lines 395-409 *)
CmdResult(len, buf, min_rsp_body_length) ==
    LET err == be32_to_int(buf, 6)
    IN  IF len < 0 THEN len
        ELSE IF err # 0 THEN err
        ELSE IF len < min_rsp_body_length + TPM_HEADER_SIZE THEN -EFAULT
        ELSE 0

(* min_rsp_body_length is read only here, so the caller's value is drawn here *)
TransmitCmdReturn(t) ==
    /\ fr[t].pc = "cmd_ret"
    /\ \E m \in {0, 4} :
          Set(t, [fr[t] EXCEPT !.pc = "done", !.min_rsp_body_length = m,
                               !.result = CmdResult(fr[t].ret, fr[t].buf, m)])
    /\ UNCHANGED << chip, locality, tpm_mutex, clk, held, obs >>

(* the caller has read the result and the buffer *)
CallerDone(t) ==
    /\ fr[t].pc = "done"
    /\ Set(t, IdleFrame)
    /\ Note(t, IdleObs)
    /\ UNCHANGED << chip, locality, tpm_mutex, clk, held >>

(* ------------------------------------------------------------------ *)
(* Callers that hold the mutex around flagged calls                     *)
(* ------------------------------------------------------------------ *)
(* a caller takes chip->tpm_mutex itself, as the outer operation of nested
   or unlocked calls does; it may hold a locality as well *)
CallerLock(t) ==
    /\ fr[t].pc = "idle"
    /\ ~held[t]
    /\ tpm_mutex = 0
    /\ tpm_mutex' = t
    /\ held' = [held EXCEPT ![t] = TRUE]
    /\ \E l \in {-1} \cup (IF "request_locality" \in chip.ops THEN {0} ELSE {}) :
          locality' = l
    /\ UNCHANGED << chip, clk, fr, obs >>

CallerUnlock(t) ==
    /\ fr[t].pc = "idle"
    /\ held[t]
    /\ tpm_mutex' = 0
    /\ locality' = -1
    /\ held' = [held EXCEPT ![t] = FALSE]
    /\ UNCHANGED << chip, clk, fr, obs >>

(* ------------------------------------------------------------------ *)
(* Specifications                                                       *)
(* ------------------------------------------------------------------ *)
Step(t, inputs) ==
    \/ TransmitCmdCall(t, inputs)
    \/ TryEnter(t)
    \/ TryLock(t)
    \/ RequestLocality(t)
    \/ CmdReady(t)
    \/ PrepareSpace(t)
    \/ Send(t)
    \/ Poll(t)
    \/ Recv(t)
    \/ CommitSpace(t)
    \/ GoIdle(t)
    \/ OutLocality(t)
    \/ TransmitCheck(t)
    \/ Backoff(t)
    \/ TransmitCmdReturn(t)
    \/ CallerDone(t)
    \/ CallerLock(t)
    \/ CallerUnlock(t)

(* one caller: every call runs alone *)
Next == Step(1, Inputs)

Spec == Init /\ [][Next]_vars

(* two callers on one chip with every hook *)
InitConc == InitOn({FullChip}, {})

NextConc == \E t \in Threads : Step(t, ConcInputs)

SpecConc == InitConc /\ [][NextConc]_vars

(* ------------------------------------------------------------------ *)
(* The exported wrappers                                                *)
(* ------------------------------------------------------------------ *)
Wrappers ==
    {"tpm_is_tpm2", "tpm_pcr_read", "tpm_pcr_extend", "tpm_send",
     "tpm_get_random", "tpm_seal_trusted", "tpm_unseal_trusted"}

(* the wrappers that serve TPM 2.0 chips only *)
Tpm2Only == {"tpm_seal_trusted", "tpm_unseal_trusted"}

(* what the command a wrapper issues may return: success, a system error,
   a TPM error *)
BodyResults == {0, -EIO, 257}

(* a wrapper is entered: tpm_get_random checks its arguments (lines 610-611),
   tpm_find_get_ops finds the chip and takes the ops reference or fails, and
   tpm_seal_trusted / tpm_unseal_trusted return -ENODEV for a chip that is
   not TPM 2.0 (lines 644-645, 672-673) *)
WrapperCall(t) ==
    /\ fr[t].pc = "idle"
    /\ ~held[t]
    /\ chip.refs < MaxRefs
    /\ \E w \in Wrappers, argsok \in BOOLEAN, found \in BOOLEAN :
          /\ (w # "tpm_get_random") => argsok
          /\ IF ~argsok
             THEN /\ Set(t, [fr[t] EXCEPT !.pc = "w_done", !.wrapper = w,
                                          !.result = -EINVAL])
                  /\ UNCHANGED chip
             ELSE IF ~found
             THEN /\ Set(t, [fr[t] EXCEPT !.pc = "w_done", !.wrapper = w,
                                          !.found = "failed", !.result = -ENODEV])
                  /\ UNCHANGED chip
             ELSE IF w \in Tpm2Only /\ "TPM2" \notin chip.flags
             THEN /\ Set(t, [fr[t] EXCEPT !.pc = "w_done", !.wrapper = w,
                                          !.found = "ok", !.result = -ENODEV])
                  /\ chip' = [chip EXCEPT !.refs = @ + 1]
             ELSE /\ Set(t, [fr[t] EXCEPT !.pc = "w_body", !.wrapper = w,
                                          !.found = "ok"])
                  /\ chip' = [chip EXCEPT !.refs = @ + 1]
    /\ UNCHANGED << locality, tpm_mutex, clk, held, obs >>

(* the body of a wrapper: the flag test of tpm_is_tpm2 or the command of the
   others returns, then tpm_put_ops *)
WrapperBody(t) ==
    /\ fr[t].pc = "w_body"
    /\ \E rc \in IF fr[t].wrapper = "tpm_is_tpm2"
                  THEN {IF "TPM2" \in chip.flags THEN 1 ELSE 0}
                  ELSE BodyResults :
          Set(t, [fr[t] EXCEPT !.pc = "w_done", !.result = rc])
    /\ chip' = [chip EXCEPT !.refs = @ - 1]
    /\ UNCHANGED << locality, tpm_mutex, clk, held, obs >>

(* the caller has read the wrapper's result *)
WrapperReturn(t) ==
    /\ fr[t].pc = "w_done"
    /\ Set(t, IdleFrame)
    /\ UNCHANGED << chip, locality, tpm_mutex, clk, held, obs >>

NextOps == WrapperCall(1) \/ WrapperBody(1) \/ WrapperReturn(1)

SpecOps == Init /\ [][NextOps]_vars

(* tpm_transmit_cmd on what tpm_transmit returned: every value of the
   return-code field, short and long responses, transport errors *)
ReturnCodeBytes ==
    { << 0, 0, 0, 0 >>, << 0, 0, 0, 1 >>, << 0, 0, 9, 34 >>, << 0, 0, 9, 10 >>,
      << 0, 11, 1, 67 >>, << 127, 255, 255, 255 >>, << 128, 0, 0, 0 >>,
      << 128, 0, 9, 34 >>, << 255, 255, 255, 234 >>, << 255, 255, 255, 255 >> }

(* what tpm_transmit may hand to tpm_transmit_cmd: a negative value, or the
   length of the response in the buffer *)
TransmitReturns ==
    { [ret |-> e, buf |-> Put(Response(TPM_HEADER_SIZE, TPM_HEADER_SIZE, 0), 6, c)] :
        e \in {-EINVAL, -ETIME, -EFAULT, -EIO}, c \in ReturnCodeBytes }
    \cup
    { [ret |-> n, buf |-> Put(Response(n, n, 0), 6, c)] :
        n \in {TPM_HEADER_SIZE, TPM_HEADER_SIZE + 2, TPM_HEADER_SIZE + 4},
        c \in ReturnCodeBytes }

InitCmd ==
    /\ chip = FullChip
    /\ locality = -1
    /\ tpm_mutex = 0
    /\ clk = FALSE
    /\ held = [t \in Threads |-> FALSE]
    /\ obs = [t \in {1} |-> IdleObs]
    /\ \E r \in TransmitReturns :
          fr = [t \in Threads |->
                  IF t = 1
                  THEN [IdleFrame EXCEPT !.pc = "cmd_ret", !.buf = r.buf,
                                         !.bufsiz = Len(r.buf), !.ret = r.ret]
                  ELSE IdleFrame]

NextCmd == TransmitCmdReturn(1) \/ CallerDone(1)

SpecCmd == InitCmd /\ [][NextCmd]_vars

(* ------------------------------------------------------------------ *)
(* Properties                                                           *)
(* ------------------------------------------------------------------ *)
Recorded == DOMAIN obs

(* the positions of tpm_try_transmit between mutex_lock and mutex_unlock *)
LockedSection ==
    {"locality", "ready", "prepare", "send", "poll", "recv", "commit", "out",
     "out_locality"}

(* tpm_try_transmit has returned to the loop, or the loop has been left *)
AfterAttempt == {"check", "backoff", "cmd_ret", "done"}

(* the return code in the header of b *)
ReturnCode(b) == be32_to_cpu(b, 6)

(* the delays of k sleeps that start at TPM2_DURATION_SHORT and double *)
Doubling(k) == [i \in 1..k |-> TPM2_DURATION_SHORT * Pow2(i - 1)]

(* C1: a call whose bufsiz is below TPM_HEADER_SIZE makes one attempt, which
   invokes no chip operation and no mutex_lock and returns -EINVAL;
   tpm_transmit and tpm_transmit_cmd return -EINVAL as well. *)
C1_ShortBufferRejected ==
    \A t \in Recorded :
        (fr[t].pc # "idle" /\ fr[t].bufsiz < TPM_HEADER_SIZE) =>
            /\ fr[t].pc \in {"try", "check", "cmd_ret", "done"}
            /\ obs[t].attempts <= 1
            /\ obs[t].at.cnt = NoOps
            /\ obs[t].nsend = 0 /\ ~obs[t].recvd /\ obs[t].sleeps = << >>
            /\ (fr[t].pc \in AfterAttempt => fr[t].ret = -EINVAL)
            /\ (fr[t].pc = "done" => fr[t].result = -EINVAL)

C1_Witness ==
    /\ fr[1].pc = "done" /\ fr[1].bufsiz < TPM_HEADER_SIZE
    /\ fr[1].result = -EINVAL /\ obs[1].attempts = 1

(* the command as passed in has a full header whose command code the
   TPM2 chip's table lacks *)
Unsupported(t) ==
    /\ fr[t].pc # "idle"
    /\ "TPM2" \in chip.flags /\ chip.nr_commands > 0
    /\ fr[t].bufsiz >= TPM_HEADER_SIZE
    /\ \A i \in 1..chip.nr_commands :
          chip.cc_attrs_tbl[i] % 65536 # be32_to_cpu(obs[t].orig, 6)

(* the attempt of an unsupported command: 10 is returned, the header is the
   synthesized one, no hook and no mutex operation was invoked *)
Synthesized(t) ==
    /\ fr[t].pc \in {"try", "check", "cmd_ret", "done"}
    /\ obs[t].attempts <= 1
    /\ obs[t].at.cnt = NoOps
    /\ obs[t].nsend = 0 /\ ~obs[t].recvd
    /\ fr[t].pc \in AfterAttempt =>
          /\ fr[t].ret = 10
          /\ be16_to_cpu(fr[t].buf, 0) = TPM2_ST_NO_SESSIONS
          /\ be32_to_cpu(fr[t].buf, 2) = 10
          /\ be32_to_cpu(fr[t].buf, 6) = TSS2_RESMGR_TPM_RC_LAYER + TPM2_RC_COMMAND_CODE

(* C2 as stated: on a TPM2 chip with a command table, a command of at least
   10 bytes whose code the table lacks gets the synthesized response and
   reaches no hook, for any space argument (NULL included) and any flags. *)
C2_AnySpace ==
    \A t \in Recorded : Unsupported(t) => Synthesized(t)

(* C2: on a TPM2 chip with a command table, a command of at least 10 bytes
   whose code the table lacks, passed with a non-NULL space, gets the
   synthesized response (tag TPM2_ST_NO_SESSIONS, length 10, return code
   TPM2_RC_COMMAND_CODE | TSS2_RESMGR_TPM_RC_LAYER), tpm_try_transmit returns
   10, and no hook and no mutex operation is invoked, for any flags. *)
C2_UnsupportedWithSpace ==
    \A t \in Recorded : (Unsupported(t) /\ fr[t].space) => Synthesized(t)

C2_Witness ==
    /\ Unsupported(1) /\ fr[1].space /\ fr[1].flags # {}
    /\ fr[1].pc = "check" /\ fr[1].ret = 10

(* every attempt of the call so far received a response of RETRY, and
   the loop has been left *)
GaveUp(t) ==
    fr[t].pc = "cmd_ret" /\ obs[t].attempts >= 1 /\ obs[t].allRetry

(* the loop has been left by a response of the chip that is neither RETRY nor
   TESTING, after RETRY to every attempt before *)
Answered(t) ==
    /\ fr[t].pc = "cmd_ret" /\ obs[t].prevAllRetry
    /\ obs[t].recvd /\ fr[t].ret >= 0
    /\ ReturnCode(fr[t].buf) \notin {TPM2_RC_RETRY, TPM2_RC_TESTING}

(* C3 as stated: for every K >= 0, after K responses of RETRY another
   attempt is made (the send hook is invoked K + 1 times): tpm_transmit never
   returns while every response so far was RETRY. *)
C3_EveryK ==
    \A t \in Recorded : ~GaveUp(t)

(* C3: for K from 0 to 7 (the K with TPM2_DURATION_SHORT * 2^(K-1) <=
   TPM2_DURATION_LONG): when the first K attempts are answered RETRY and the
   next one is answered otherwise, tpm_transmit has invoked send K + 1 times,
   has slept K times with delays SHORT, 2*SHORT, ..., SHORT*2^(K-1), and
   returns the length of the last response; it stops retrying only after
   the K-th RETRY with SHORT * 2^(K-1) > LONG. *)
C3_RetryBackoff ==
    \A t \in Recorded :
        /\ Answered(t) =>
              /\ obs[t].nsend = obs[t].attempts
              /\ obs[t].sleeps = Doubling(obs[t].attempts - 1)
              /\ fr[t].ret = obs[t].recvRet
        /\ GaveUp(t) =>
              TPM2_DURATION_SHORT * Pow2(obs[t].attempts - 1) > TPM2_DURATION_LONG

C3_Witness ==
    Answered(1) /\ obs[1].attempts = 8 /\ obs[1].nsend = 8 /\ Len(obs[1].sleeps) = 7

(* a retry is about to call tpm_try_transmit *)
Resubmitting(t) == fr[t].pc = "try" /\ obs[t].attempts >= 1

(* C4 as stated: before every resubmission the first save_size bytes equal
   the snapshot taken before the first attempt, and all count bytes of the
   command (count is its length field) equal the original command. *)
C4_WholeCommand ==
    \A t \in Recorded :
        Resubmitting(t) =>
            /\ Prefix(fr[t].buf, fr[t].save_size) = fr[t].save
            /\ Prefix(fr[t].buf, be32_to_cpu(obs[t].orig, 2))
                  = Prefix(obs[t].orig, be32_to_cpu(obs[t].orig, 2))

(* C4: the step from the sleep to a resubmission leaves the first save_size
   bytes of the buffer equal to the snapshot taken before the first attempt
   (the first save_size bytes of the original command; save_size is
   min(10 or 22, bufsiz)), and leaves every byte from save_size on as the
   previous attempt left it. *)
C4_HeadRestored ==
    [][\A t \in Recorded :
          (fr[t].pc = "backoff" /\ fr'[t].pc = "try") =>
              /\ fr'[t].save = Prefix(obs[t].orig, SaveSize(fr[t].space, fr[t].bufsiz))
              /\ Prefix(fr'[t].buf, fr'[t].save_size) = fr'[t].save
              /\ Len(fr'[t].buf) = Len(fr[t].buf)
              /\ \A i \in (fr[t].save_size + 1)..Len(fr[t].buf) :
                    fr'[t].buf[i] = fr[t].buf[i]]_vars

C4_Witness ==
    /\ Resubmitting(1) /\ fr[1].space
    /\ Prefix(fr[1].buf, fr[1].save_size) = Prefix(obs[1].orig, fr[1].save_size)
    /\ fr[1].save_size > TPM_HEADER_SIZE
    /\ fr[1].buf # obs[1].orig

(* the attempts tpm_transmit makes when every one is answered RETRY, from
   the delay d on *)
RECURSIVE AttemptsFrom(_)
AttemptsFrom(d) ==
    IF d > TPM2_DURATION_LONG THEN 1 ELSE 1 + AttemptsFrom(2 * d)

(* C5: when every attempt is answered RETRY the loop ends: no call makes
   more than AttemptsFrom(TPM2_DURATION_SHORT) attempts, no sleep is longer
   than TPM2_DURATION_LONG, and the loop gives up only when the delay has
   passed TPM2_DURATION_LONG; tpm_transmit then returns the length of the
   last response, which is not negative and still carries RETRY. *)
C5_RetryExhaustion ==
    \A t \in Recorded :
        /\ obs[t].attempts <= AttemptsFrom(TPM2_DURATION_SHORT)
        /\ \A i \in 1..Len(obs[t].sleeps) : obs[t].sleeps[i] <= TPM2_DURATION_LONG
        /\ GaveUp(t) =>
              /\ obs[t].attempts = AttemptsFrom(TPM2_DURATION_SHORT)
              /\ Len(obs[t].sleeps) = obs[t].attempts - 1
              /\ obs[t].recvd /\ fr[t].ret = obs[t].recvRet /\ fr[t].ret >= 0
              /\ ReturnCode(fr[t].buf) = TPM2_RC_RETRY

C5_Witness ==
    /\ GaveUp(1) /\ obs[1].attempts = 8 /\ fr[1].ret = TPM_HEADER_SIZE
    /\ obs[1].sleeps[7] = 1280

(* the last attempt of a TPM2_CC_SELF_TEST returned a response of TESTING *)
SelfTestTesting(t) ==
    /\ be32_to_cpu(obs[t].orig, 6) = TPM2_CC_SELF_TEST
    /\ Len(obs[t].orig) >= TPM_HEADER_SIZE
    /\ obs[t].recvd /\ fr[t].ret >= 0
    /\ ReturnCode(fr[t].buf) = TPM2_RC_TESTING

(* C6: when an attempt of a TPM2_CC_SELF_TEST command returns a response of
   TPM2_RC_TESTING, tpm_transmit does not sleep and makes no further
   attempt, whatever the delay: it returns the length of that response, and
   one send was made when that was the first response. *)
C6_SelfTestReturns ==
    \A t \in Recorded :
        /\ (fr[t].pc = "backoff" =>
              ~(fr[t].cc = TPM2_CC_SELF_TEST /\ fr[t].ret >= 0
                /\ ReturnCode(fr[t].buf) = TPM2_RC_TESTING))
        /\ (fr[t].pc \in {"cmd_ret", "done"} /\ SelfTestTesting(t)) =>
              /\ fr[t].ret = obs[t].recvRet
              /\ obs[t].nsend = obs[t].attempts
              /\ Len(obs[t].sleeps) = obs[t].attempts - 1

C6_Witness ==
    /\ fr[1].pc = "cmd_ret" /\ SelfTestTesting(1)
    /\ obs[1].attempts = 3 /\ obs[1].nsend = 3

C6_FirstResponseWitness ==
    /\ fr[1].pc = "cmd_ret" /\ SelfTestTesting(1)
    /\ obs[1].attempts = 1 /\ obs[1].nsend = 1

(* a non-nested attempt on a chip with both locality hooks that found
   chip->locality at -1 *)
OwnsLocality(t) ==
    /\ fr[t].pc \in {"lock"} \cup LockedSection \cup {"check"}
    /\ "TPM_TRANSMIT_NESTED" \notin fr[t].flags
    /\ {"request_locality", "relinquish_locality"} \subseteq chip.ops
    /\ obs[t].at.locEntry = -1

(* C7: a non-nested attempt on a chip with both locality hooks that finds
   chip->locality at -1 requests a locality at most once; a granted request
   is followed by one relinquish of the granted value before the attempt
   returns, a failed or absent request by none, and chip->locality is -1
   when the attempt returns, whether it succeeded or not. *)
C7_LocalityBalanced ==
    \A t \in Recorded :
        OwnsLocality(t) =>
            LET a == obs[t].at
            IN  /\ a.cnt["request_locality"] <= 1
                /\ a.cnt["relinquish_locality"] <= (IF a.granted >= 0 THEN 1 ELSE 0)
                /\ (a.cnt["relinquish_locality"] = 1 => a.relArg = a.granted)
                /\ (a.granted >= 0 /\ a.cnt["relinquish_locality"] = 0 =>
                       locality = a.granted)
                /\ fr[t].pc = "check" =>
                       /\ a.cnt["relinquish_locality"] = (IF a.granted >= 0 THEN 1 ELSE 0)
                       /\ a.cnt["request_locality"] >= a.cnt["relinquish_locality"]
                       /\ locality = -1

C7_Witness ==
    /\ OwnsLocality(1) /\ fr[1].pc = "check" /\ fr[1].ret = -ETIME
    /\ obs[1].at.granted = 0 /\ obs[1].at.cnt["relinquish_locality"] = 1
    /\ obs[1].at.relArg = 0

C7_FailedRequestWitness ==
    /\ OwnsLocality(1) /\ fr[1].pc = "check"
    /\ obs[1].at.cnt["request_locality"] = 1 /\ obs[1].at.granted = -1
    /\ obs[1].at.cnt["relinquish_locality"] = 0

(* the last attempt's recv returned an error, fewer than TPM_HEADER_SIZE
   bytes, or a length other than the one the response header declares *)
BadRecv(t) ==
    /\ obs[t].recvd
    /\ \/ obs[t].recvRet < TPM_HEADER_SIZE
       \/ obs[t].recvRet # obs[t].recvDecl

(* C8: when recv returns a negative value, fewer than 10 bytes, or a length
   different from the length field of the response, the attempt returns a
   negative value (recv's error, else -EFAULT) without committing the
   space, tpm_transmit does not retry, and tpm_transmit_cmd returns that
   negative value; a response is returned only when recv's length is at
   least 10 and equals the declared length. *)
C8_FramingEnforced ==
    \A t \in Recorded :
        /\ BadRecv(t) =>
              LET e == IF obs[t].recvRet < 0 THEN obs[t].recvRet ELSE -EFAULT
              IN  /\ fr[t].pc \notin {"commit", "backoff"}
                  /\ (fr[t].pc \in AfterAttempt => fr[t].ret = e /\ e < 0)
                  /\ (fr[t].pc = "done" => fr[t].result = e)
        /\ (fr[t].pc \in AfterAttempt /\ obs[t].recvd /\ fr[t].ret >= 0) =>
              /\ obs[t].recvRet >= TPM_HEADER_SIZE
              /\ obs[t].recvRet = obs[t].recvDecl

C8_Witness ==
    /\ fr[1].pc = "done" /\ BadRecv(1)
    /\ obs[1].recvRet = TPM_HEADER_SIZE /\ obs[1].recvDecl = TPM_HEADER_SIZE + 4
    /\ fr[1].result = -EFAULT

C8_ShortRecvWitness ==
    /\ fr[1].pc = "done" /\ BadRecv(1)
    /\ obs[1].recvRet = 6 /\ fr[1].result = -EFAULT

(* C9: an attempt without TPM_TRANSMIT_UNLOCKED and TPM_TRANSMIT_NESTED that
   gets past validation and the length checks calls mutex_lock once and
   mutex_unlock once before it returns, whatever it returns; an attempt with
   either flag calls neither. *)
C9_MutexBalanced ==
    \A t \in Recorded :
        LET a == obs[t].at
            plain == fr[t].flags = {}
        IN  /\ a.cnt["mutex_unlock"] <= a.cnt["mutex_lock"]
            /\ a.cnt["mutex_lock"] <= 1
            /\ (~plain => a.cnt["mutex_lock"] = 0 /\ a.cnt["mutex_unlock"] = 0)
            /\ (plain /\ fr[t].pc \in LockedSection =>
                   a.cnt["mutex_lock"] = 1 /\ a.cnt["mutex_unlock"] = 0
                   /\ tpm_mutex = t)
            /\ (fr[t].pc = "check" =>
                   /\ a.cnt["mutex_lock"] = a.cnt["mutex_unlock"]
                   /\ (plain => tpm_mutex = 0)
                   /\ (plain /\ a.cnt["clk_enable"] + a.cnt["request_locality"]
                                + a.cnt["cmd_ready"] + a.cnt["send"] > 0
                          => a.cnt["mutex_lock"] = 1))

C9_Witness ==
    /\ fr[1].pc = "check" /\ fr[1].flags = {} /\ fr[1].ret = -EPIPE
    /\ obs[1].at.cnt["mutex_lock"] = 1 /\ obs[1].at.cnt["mutex_unlock"] = 1

C9_FlaggedWitness ==
    /\ fr[1].pc = "check" /\ fr[1].flags = {"TPM_TRANSMIT_NESTED"}
    /\ obs[1].at.cnt["send"] = 1 /\ obs[1].at.cnt["mutex_lock"] = 0
    /\ obs[1].at.cnt["mutex_unlock"] = 0

(* a call without flags is in its retry loop, between two attempts *)
BetweenAttempts(t) ==
    /\ fr[t].flags = {} /\ ~held[t]
    /\ \/ fr[t].pc = "backoff"
       \/ fr[t].pc \in {"try", "lock"} /\ fr[t].delay_msec > TPM2_DURATION_SHORT

(* C10 as stated: a call without flags holds chip->tpm_mutex from validation
   through every retry, so no other thread is inside an attempt between two
   attempts of the call. *)
C10_HeldAcrossRetries ==
    \A t, u \in Threads :
        (t # u /\ BetweenAttempts(t)) =>
            /\ tpm_mutex = t
            /\ fr[u].pc \notin LockedSection

(* C10: a call without TPM_TRANSMIT_UNLOCKED and TPM_TRANSMIT_NESTED holds
   chip->tpm_mutex exactly while one attempt is between its mutex_lock and
   its mutex_unlock, that is during the attempt's clock, locality, send,
   poll and recv steps: not during validation and the length checks, and
   not between attempts. *)
C10_HeldPerAttempt ==
    \A t \in Threads :
        (fr[t].flags = {} /\ ~held[t]) =>
            ((tpm_mutex = t) <=> (fr[t].pc \in LockedSection))

C10_Witness ==
    /\ fr[1].pc = "backoff" /\ fr[1].flags = {} /\ ~held[1]
    /\ fr[2].pc = "send" /\ fr[2].flags = {} /\ tpm_mutex = 2

(* C11: the result of tpm_transmit_cmd is three-way for every 32-bit value of
   the return-code field: after a transport success a nonzero return code
   gives a strictly positive result equal to the code; the result is 0 only
   for return code 0 and a response of at least min_rsp_body_length + 10
   bytes; the result is negative only for a negative tpm_transmit result or
   (-EFAULT) a too-short response with return code 0. *)
C11_ThreeWay ==
    \A t \in Threads :
        fr[t].pc = "done" =>
            LET f == fr[t]
                code == SubSeq(f.buf, 7, 10)
                zero == code = << 0, 0, 0, 0 >>
                enough == f.ret >= f.min_rsp_body_length + TPM_HEADER_SIZE
            IN  /\ (f.ret >= 0 /\ ~zero) =>
                      (f.result > 0 /\ cpu_to_be32(f.result) = code)
                /\ (f.result = 0) => (zero /\ enough)
                /\ (f.result < 0) =>
                      \/ f.ret < 0 /\ f.result = f.ret
                      \/ f.ret >= 0 /\ zero /\ ~enough /\ f.result = -EFAULT

(* C12: on a TPM2 chip with a command table, for a command passed with a
   space whose code the table holds with N handles, the validator rejects
   (the attempt returns -EINVAL) if and only if len < TPM_HEADER_SIZE + 4*N,
   and accepts every len >= TPM_HEADER_SIZE + 4*N. *)
C12_HandleCount ==
    \A t \in Recorded :
        (/\ fr[t].pc = "check" /\ fr[t].space
         /\ "TPM2" \in chip.flags /\ chip.nr_commands > 0
         /\ fr[t].bufsiz >= TPM_HEADER_SIZE) =>
            \A i \in 1..chip.nr_commands :
               chip.cc_attrs_tbl[i] % 65536 = be32_to_cpu(obs[t].orig, 6) =>
                  LET N == (chip.cc_attrs_tbl[i] \div Pow2(TPM2_CC_ATTR_CHANDLES)) % 8
                  IN  (fr[t].ret = -EINVAL) <=> (fr[t].bufsiz < TPM_HEADER_SIZE + 4 * N)

(* a non-nested attempt on a chip with the go_idle hook *)
IdlesChip(t) ==
    "TPM_TRANSMIT_NESTED" \notin fr[t].flags /\ "go_idle" \in chip.ops

(* the attempt got past validation and the length checks *)
Sequenced(t) ==
    obs[t].at.cnt["mutex_lock"] + obs[t].at.cnt["clk_enable"] >= 1

(* C13 as stated: every non-nested attempt that got past validation and the
   length checks invokes go_idle exactly once before it returns, on every
   exit path, also when request_locality or cmd_ready failed. *)
C13_GoIdleAlways ==
    \A t \in Recorded :
        (fr[t].pc = "check" /\ IdlesChip(t) /\ Sequenced(t)) =>
            obs[t].at.cnt["go_idle"] = 1

(* C13: a non-nested attempt invokes go_idle exactly once before it returns
   on every exit path after tpm_cmd_ready returned 0 (prepare_space failure,
   send error, cancellation, timeout, recv or framing error, commit, success),
   and never when request_locality or cmd_ready failed or the attempt ended
   before them. *)
C13_GoIdleAfterReady ==
    \A t \in Recorded :
        IdlesChip(t) =>
            LET a == obs[t].at
            IN  /\ a.cnt["go_idle"] <= 1
                /\ (fr[t].pc \in {"prepare", "send", "poll", "recv", "commit", "out"} =>
                       a.ready /\ a.cnt["go_idle"] = 0)
                /\ (fr[t].pc \in {"out_locality", "check"} =>
                       a.cnt["go_idle"] = (IF a.ready THEN 1 ELSE 0))

C13_Witness ==
    /\ fr[1].pc = "check" /\ IdlesChip(1) /\ obs[1].at.ready
    /\ fr[1].ret = -ECANCELED /\ obs[1].at.cnt["go_idle"] = 1

C13_ReadyFailedWitness ==
    /\ fr[1].pc = "check" /\ IdlesChip(1) /\ Sequenced(1)
    /\ obs[1].at.cnt["cmd_ready"] = 1 /\ ~obs[1].at.ready
    /\ obs[1].at.cnt["go_idle"] = 0

(* C14: when an attempt returns a negative value, the next step of
   tpm_transmit is its return of exactly that value: no sleep, no further
   attempt, the buffer left as the attempt left it, even when the buffer's
   return-code field holds TPM2_RC_RETRY or TPM2_RC_TESTING. *)
C14_NoRetryOnError ==
    [][\A t \in Recorded :
          (fr[t].pc = "check" /\ fr[t].ret < 0) =>
              /\ fr'[t].pc = "cmd_ret"
              /\ fr'[t].ret = fr[t].ret
              /\ fr'[t].buf = fr[t].buf
              /\ obs'[t].sleeps = obs[t].sleeps
              /\ obs'[t].attempts = obs[t].attempts
              /\ obs'[t].nsend = obs[t].nsend]_vars

C14_Witness ==
    /\ fr[1].pc = "cmd_ret" /\ fr[1].ret = -ENOMEM
    /\ obs[1].recvd /\ ReturnCode(fr[1].buf) = TPM2_RC_RETRY
    /\ obs[1].attempts = 2

(* C15: callers without TPM_TRANSMIT_UNLOCKED and TPM_TRANSMIT_NESTED are
   mutually exclusive per attempt: after every step at most one of them is
   between its mutex_lock and its mutex_unlock (so the hook sequences of two
   attempts never interleave) and that one holds chip->tpm_mutex;
   need_locality is read from chip->locality by the thread that has just
   taken the mutex, and chip->locality changes only in a step of the thread
   that holds the mutex before or after it. *)
C15_MutualExclusion ==
    [][/\ \A t, u \in Threads :
             (t # u /\ fr'[t].flags = {} /\ ~held'[t] /\ fr'[u].flags = {} /\ ~held'[u]) =>
                 ~(fr'[t].pc \in LockedSection /\ fr'[u].pc \in LockedSection)
       /\ \A t \in Threads :
             (fr'[t].flags = {} /\ ~held'[t] /\ fr'[t].pc \in LockedSection) =>
                 tpm_mutex' = t
       /\ \A t \in Threads :
             (fr[t].pc = "lock" /\ fr'[t].pc = "locality") =>
                 tpm_mutex' = t /\ fr'[t].need_locality = (locality = -1)
       /\ locality' # locality =>
             \E t \in Threads :
                /\ fr'[t] # fr[t] \/ held'[t] # held[t]
                /\ tpm_mutex = t \/ tpm_mutex' = t]_vars

C15_Witness ==
    /\ fr[1].pc = "lock" /\ fr[1].flags = {} /\ ~held[1]
    /\ fr[2].pc = "poll" /\ fr[2].flags = {} /\ ~held[2]
    /\ tpm_mutex = 2 /\ locality = 0

(* the request_locality hook was invoked in the attempt and granted nothing *)
FailedRequest(t) ==
    obs[t].at.cnt["request_locality"] = 1 /\ obs[t].at.granted = -1

(* what a failed request leaves once the attempt has returned: none of the
   later hooks was invoked, chip->locality is -1, the clock is off, the
   mutex was released when the attempt took it, the hook's value is returned *)
AbortedByRequest(t) ==
    LET a == obs[t].at
    IN  /\ \A op \in {"cmd_ready", "send", "status", "req_canceled", "cancel",
                      "recv", "go_idle", "relinquish_locality"} : a.cnt[op] = 0
        /\ ~a.ready
        /\ locality = -1
        /\ fr[t].pc = "check" =>
              /\ fr[t].ret \in RequestResults /\ fr[t].ret < 0
              /\ ~clk
              /\ ("clk_enable" \in chip.ops => a.cnt["clk_enable"] = 2)
              /\ a.cnt["mutex_unlock"] = a.cnt["mutex_lock"]
              /\ (fr[t].flags = {} => a.cnt["mutex_unlock"] = 1 /\ tpm_mutex = 0)

(* C16: when the request_locality hook returns a negative value in a
   non-nested attempt, the attempt leaves at once: after every step cmd_ready,
   prepare_space, send, status, recv and relinquish_locality have not been
   invoked, chip->locality is -1, the clock is switched off and the mutex
   released before tpm_try_transmit returns the hook's value, and the next
   step of tpm_transmit is its return of that value, without a retry. *)
C16_RequestFailureAborts ==
    [][\A t \in Recorded :
          /\ FailedRequest(t)' =>
                (fr'[t].pc \in {"out_locality", "check"} /\ AbortedByRequest(t)')
          /\ (FailedRequest(t) /\ fr[t].pc = "check") =>
                (fr'[t].pc = "cmd_ret" /\ fr'[t].ret = fr[t].ret)]_vars

C16_Witness ==
    /\ fr[1].pc = "check" /\ FailedRequest(1) /\ fr[1].flags = {}
    /\ fr[1].ret = -EIO /\ obs[1].at.cnt["mutex_unlock"] = 1
    /\ obs[1].at.cnt["clk_enable"] = 2

(* C17: teardown never changes the outcome of an attempt: the go_idle step
   leaves rc and len as they were whatever the hook returns, and the attempt
   returns the rc recorded before teardown, or len when rc is 0, whatever
   the go_idle and relinquish_locality hooks returned; after go_idle,
   failed or not, relinquish_locality (when the attempt owns a locality),
   clk_enable(false) and mutex_unlock still run. *)
C17_TeardownKeepsResult ==
    [][\A t \in Recorded :
          /\ (fr[t].pc = "out" /\ fr'[t].pc = "out_locality") =>
                (fr'[t].rc = fr[t].rc /\ fr'[t].len = fr[t].len)
          /\ (fr[t].pc = "out_locality" /\ fr'[t].pc = "check") =>
                LET a == obs[t].at
                    b == obs'[t].at
                    owns == /\ fr[t].need_locality
                            /\ "TPM_TRANSMIT_NESTED" \notin fr[t].flags
                            /\ "relinquish_locality" \in chip.ops
                IN  /\ fr'[t].ret = (IF fr[t].rc # 0 THEN fr[t].rc ELSE fr[t].len)
                    /\ b.idleRet = a.idleRet
                    /\ b.cnt["relinquish_locality"] = (IF owns THEN 1 ELSE 0)
                    /\ (owns => locality' = -1)
                    /\ ("clk_enable" \in chip.ops =>
                           b.cnt["clk_enable"] = a.cnt["clk_enable"] + 1 /\ ~clk')
                    /\ (fr[t].flags = {} =>
                           b.cnt["mutex_unlock"] = 1 /\ tpm_mutex' = 0)]_vars

C17_Witness ==
    /\ fr[1].pc = "check" /\ fr[1].ret = TPM_HEADER_SIZE
    /\ obs[1].at.idleRet < 0 /\ obs[1].at.relRet < 0
    /\ obs[1].at.cnt["go_idle"] = 1 /\ obs[1].at.cnt["relinquish_locality"] = 1
    /\ obs[1].at.cnt["mutex_unlock"] = 1

C17_ErrorKeptWitness ==
    /\ fr[1].pc = "check" /\ fr[1].ret = -ETIME
    /\ obs[1].at.idleRet < 0 /\ obs[1].at.relRet < 0

(* the attempt has returned after its teardown ran: go_idle, the release of
   a granted locality, the clock switched off, the mutex released *)
TornDown(t) ==
    LET a == obs[t].at
    IN  /\ (IdlesChip(t) => a.cnt["go_idle"] = 1)
        /\ a.cnt["relinquish_locality"] = (IF a.granted >= 0 THEN 1 ELSE 0)
        /\ ("clk_enable" \in chip.ops => a.cnt["clk_enable"] = 2 /\ ~clk)
        /\ (fr[t].flags = {} => a.cnt["mutex_unlock"] = 1 /\ tpm_mutex = 0)

(* C18: on a chip without TPM_CHIP_FLAG_IRQ, polling starts after a
   successful send and reads the status at least once; recv is invoked only
   after a status read that showed completion; when the deadline passes
   first, cancel is invoked once, recv is not, and the attempt returns
   -ETIME; when req_canceled reports true first, the attempt returns
   -ECANCELED with neither cancel nor recv invoked; in both cases go_idle,
   the locality release, the clock switch-off and the unlock still run. *)
C18_CompletionPolling ==
    \A t \in Recorded :
        "IRQ" \notin chip.flags =>
            LET a == obs[t].at
                left == fr[t].pc \in {"out", "out_locality", "check"}
            IN  /\ a.cnt["recv"] <= 1 /\ a.cnt["cancel"] <= 1
                /\ (fr[t].pc = "poll" =>
                       a.cnt["send"] = 1 /\ a.cnt["recv"] = 0 /\ a.cnt["cancel"] = 0
                       /\ a.lastStatus \in {"none", "pending"})
                /\ (a.lastStatus = "none" <=> a.cnt["status"] = 0)
                /\ ((fr[t].pc = "recv" \/ a.cnt["recv"] = 1) =>
                       a.cnt["status"] >= 1 /\ a.lastStatus = "complete"
                       /\ a.cnt["cancel"] = 0)
                /\ (fr[t].pc = "check" /\ a.cnt["send"] = 1 /\ fr[t].ret # -EPIPE =>
                       a.cnt["status"] >= 1)
                /\ (a.cnt["cancel"] = 1 =>
                       left /\ a.lastStatus = "pending" /\ a.cnt["recv"] = 0)
                /\ (a.lastStatus = "canceled" =>
                       left /\ a.cnt["cancel"] = 0 /\ a.cnt["recv"] = 0)
                /\ (a.lastStatus = "pending" /\ left => a.cnt["cancel"] = 1)
                /\ (fr[t].pc = "check" =>
                       /\ (a.cnt["cancel"] = 1 <=> fr[t].ret = -ETIME)
                       /\ (a.lastStatus = "canceled" <=> fr[t].ret = -ECANCELED)
                       /\ (fr[t].ret \in {-ETIME, -ECANCELED} => TornDown(t)))

C18_Witness ==
    /\ fr[1].pc = "check" /\ "IRQ" \notin chip.flags /\ fr[1].ret = -ETIME
    /\ obs[1].at.cnt["status"] = 2 /\ obs[1].at.cnt["cancel"] = 1
    /\ obs[1].at.cnt["recv"] = 0 /\ obs[1].at.cnt["go_idle"] = 1

C18_CanceledWitness ==
    /\ fr[1].pc = "check" /\ "IRQ" \notin chip.flags /\ fr[1].ret = -ECANCELED
    /\ obs[1].at.cnt["cancel"] = 0 /\ obs[1].at.cnt["recv"] = 0

(* the sum of the delays in a sequence of sleeps *)
RECURSIVE Total(_)
Total(sleeps) ==
    IF sleeps = << >> THEN 0 ELSE Head(sleeps) + Total(Tail(sleeps))

(* C19: within one tpm_transmit call every backoff sleep is at most
   TPM2_DURATION_LONG, and the sum of all backoff sleeps between attempts is
   at most TPM2_DURATION_LONG, for every sequence of chip responses. *)
C19_TotalBackoff ==
    \A t \in Recorded :
        /\ \A i \in 1..Len(obs[t].sleeps) : obs[t].sleeps[i] <= TPM2_DURATION_LONG
        /\ Total(obs[t].sleeps) <= TPM2_DURATION_LONG

(* C20: in the exported wrappers every successful tpm_find_get_ops is matched
   by one tpm_put_ops before the wrapper returns, for TPM1 and TPM2 chips
   alike, so no ops reference is outstanding when a wrapper has returned;
   when tpm_find_get_ops fails the wrapper returns -ENODEV and gives back
   no reference. *)
C20_OpsBalanced ==
    /\ chip.refs >= 0
    /\ \A t \in Threads :
          /\ (fr[t].pc = "w_body" => chip.refs = 1)
          /\ (fr[t].pc \in {"idle", "w_done"} => chip.refs = 0)
          /\ (fr[t].pc = "w_done" /\ fr[t].found = "failed" =>
                 fr[t].result = -ENODEV)
====
